---- MODULE Spec2Model ----
(***************************************************************************)
(* The budget allocation engine of src/model/budget.py (class BudgetModel) *)
(* driven by the handlers of src/controller/controller.py, started as in   *)
(* src/main.py.                                                            *)
(*                                                                         *)
(* Numbers.  Python computes percentages and amounts with int and float.   *)
(* Here every number is an exact rational <<n, d>> in lowest terms with    *)
(* d > 0, so that a / b * 100, sums and comparisons are computed as the    *)
(* code computes them, without the binary rounding error of a float.       *)
(* round() is Python 3's round-half-to-even.  None is the empty tuple.     *)
(***************************************************************************)
EXTENDS Integers, Sequences, FiniteSets, TLC

VARIABLES model, last, nops

vars == <<model, last, nops>>

(***************************************************************************)
(* Exact arithmetic                                                        *)
(***************************************************************************)
Abs(x) == IF x < 0 THEN -x ELSE x

RECURSIVE GCD(_, _)
GCD(a, b) == IF b = 0 THEN a ELSE GCD(b, a % b)

\* the number n / d (d # 0) in lowest terms, denominator positive
Rat(n, d) ==
    LET g == GCD(Abs(n), Abs(d))
        s == IF d < 0 THEN -1 ELSE 1
    IN  <<(s * n) \div g, (s * d) \div g>>

Num(n) == <<n, 1>>

None == <<>>

\* the products are taken after cancelling common factors, to keep them small
QAdd(a, b) ==
    LET g == GCD(a[2], b[2])
    IN  Rat(a[1] * (b[2] \div g) + b[1] * (a[2] \div g), (a[2] \div g) * b[2])
QNeg(a) == <<-a[1], a[2]>>
QSub(a, b) == QAdd(a, QNeg(b))
QMul(a, b) ==
    LET g1 == GCD(Abs(a[1]), b[2])
        g2 == GCD(Abs(b[1]), a[2])
    IN  Rat((a[1] \div g1) * (b[1] \div g2), (a[2] \div g2) * (b[2] \div g1))
\* a / b; the code guards every division by a test of the divisor
QDiv(a, b) == QMul(a, IF b[1] < 0 THEN <<-b[2], -b[1]>> ELSE <<b[2], b[1]>>)
QLe(a, b) ==
    LET g == GCD(a[2], b[2])
    IN  a[1] * (b[2] \div g) <= b[1] * (a[2] \div g)
QLt(a, b) == ~QLe(b, a)
QMax(a, b) == IF QLt(a, b) THEN b ELSE a

\* Python 3 round(x): the nearest integer, a tie going to the even one
Round(a) ==
    LET f == a[1] \div a[2]
        r == a[1] - f * a[2]
    IN  IF 2 * r < a[2] THEN Num(f)
        ELSE IF 2 * r > a[2] THEN Num(f + 1)
        ELSE IF f % 2 = 0 THEN Num(f) ELSE Num(f + 1)

\* sum(xs) of a list of numbers, starting from 0 as Python's sum does
RECURSIVE SumSeq(_)
SumSeq(xs) == IF xs = <<>> THEN Num(0) ELSE QAdd(Head(xs), SumSeq(Tail(xs)))

\* sum(f(x) for x in s if keep(x))
Sum(s, f(_), keep(_)) ==
    LET kept == SelectSeq(s, keep)
    IN  SumSeq([i \in 1..Len(kept) |-> f(kept[i])])

Always(x) == TRUE
Amount(c) == c.amount
Percentage(c) == c.percentage
Value(f) == f.value
ComputedAmount(f) == f.computed_amount

\* [x for x in s if keep(x)]
Filter(s, keep(_)) == SelectSeq(s, keep)

\* list(range(a, b))
Range(a, b) == [k \in 1..(IF b > a THEN b - a ELSE 0) |-> a + k - 1]

(***************************************************************************)
(* Category and FeeItem                                                    *)
(***************************************************************************)
Unlocked == 0
LockAmount == 1
LockPercentage == 2

Category(name, percentage) ==
    [name |-> name, percentage |-> percentage, amount |-> Num(0),
     amount_override |-> None, lock_type |-> Unlocked]

Category_to_dict(c) ==
    [name |-> c.name, percentage |-> c.percentage, amount |-> c.amount,
     amount_override |-> c.amount_override, lock_type |-> c.lock_type]

Category_from_dict(data) ==
    [Category(data.name, data.percentage) EXCEPT
        !.amount = data.amount,
        !.amount_override = data.amount_override,
        !.lock_type = data.lock_type]

FeeItem(name, fee_type, value) ==
    [name |-> name, fee_type |-> fee_type, value |-> value,
     computed_amount |-> Num(0)]

FeeItem_to_dict(f) == [name |-> f.name, fee_type |-> f.fee_type, value |-> f.value]

FeeItem_from_dict(data) == FeeItem(data.name, data.fee_type, data.value)

IsLocked(c) == c.lock_type \in {LockAmount, LockPercentage}
IsUnlocked(c) == c.lock_type = Unlocked
IsFixedFee(f) == f.fee_type = "fixed"
IsPercentageFee(f) == f.fee_type = "percentage"

\* a slip: the fees are not taken out of the grand total
recalc_subtotal_gross(e) ==
    e.grand_total

(***************************************************************************)
(* BudgetModel.recalc                                                      *)
(***************************************************************************)
\* lines 79-90: the subtotal
recalc_subtotal(e) ==
    IF e.fees = <<>> THEN e.grand_total
    ELSE IF e.import_mode = "amount" THEN Sum(e.categories, Amount, Always)
    ELSE LET fixed_fee_total == Sum(e.fees, Value, IsFixedFee)
             total_fee_pct == Sum(e.fees, Value, IsPercentageFee)
             denom == QAdd(Num(1), QDiv(total_fee_pct, Num(100)))
         IN  IF denom # Num(0)
             THEN Round(QDiv(QSub(e.grand_total, fixed_fee_total), denom))
             ELSE Num(0)

\* cat.amount / subtotal * 100 if subtotal else 0
ShareOf(amount, subtotal) ==
    IF subtotal # Num(0) THEN QMul(QDiv(amount, subtotal), Num(100)) ELSE Num(0)

\* a slip: the percentage is taken as a fraction
AmountOf_unscaled(subtotal, percentage) ==
    Round(QMul(subtotal, percentage))

\* round(subtotal * (percentage / 100))
AmountOf(subtotal, percentage) ==
    Round(QMul(subtotal, QDiv(percentage, Num(100))))

\* lines 93-109: amounts are kept, percentages follow them
recalc_from_amounts(cats, subtotal) ==
    [i \in 1..Len(cats) |->
        [cats[i] EXCEPT !.percentage = ShareOf(cats[i].amount, subtotal)]]

\* a slip: a Lock Percentage category keeps the amount it had
recalc_locked_stale_amount(cats, subtotal) ==
    [i \in 1..Len(cats) |->
        LET cat == cats[i]
        IN  IF cat.lock_type = LockAmount
            THEN LET fixed_amt == IF cat.amount_override # None
                                  THEN cat.amount_override ELSE cat.amount
                 IN  [cat EXCEPT !.amount = fixed_amt,
                                 !.percentage = ShareOf(fixed_amt, subtotal)]
            ELSE cat]

\* a slip: the amount the user typed is not taken
recalc_locked_no_override(cats, subtotal) ==
    [i \in 1..Len(cats) |->
        LET cat == cats[i]
        IN  IF cat.lock_type = LockAmount
            THEN [cat EXCEPT !.percentage = ShareOf(cat.amount, subtotal)]
            ELSE IF cat.lock_type = LockPercentage
            THEN [cat EXCEPT !.amount = AmountOf(subtotal, cat.percentage)]
            ELSE cat]

\* lines 112-120: the first loop, over the locked categories
recalc_locked(cats, subtotal) ==
    [i \in 1..Len(cats) |->
        LET cat == cats[i]
        IN  IF cat.lock_type = LockAmount
            THEN LET fixed_amt == IF cat.amount_override # None
                                  THEN cat.amount_override ELSE cat.amount
                 IN  [cat EXCEPT !.amount = fixed_amt,
                                 !.percentage = ShareOf(fixed_amt, subtotal)]
            ELSE IF cat.lock_type = LockPercentage
            THEN [cat EXCEPT !.amount = AmountOf(subtotal, cat.percentage)]
            ELSE cat]

\* a slip: the locked categories' share is not taken off
available_pct_all(fixed_percentage_total) == Num(100)

\* line 123
available_pct_of(fixed_percentage_total) == QSub(Num(100), fixed_percentage_total)

\* lines 121-134: the unlocked categories share what the locked ones leave
recalc_unlocked(cats, subtotal) ==
    LET fixed_percentage_total == Sum(cats, Percentage, IsLocked)
        unlocked == Filter(cats, IsUnlocked)
        unlocked_count == Len(unlocked)
        available_pct == available_pct_of(fixed_percentage_total)
        sum_desired == Sum(unlocked, Percentage, Always)
    IN  IF unlocked_count > 0
        THEN [i \in 1..Len(cats) |->
                LET cat == cats[i]
                IN  IF cat.lock_type # Unlocked THEN cat
                    ELSE IF QLe(sum_desired, Num(0))
                    THEN LET pct == QDiv(available_pct, Num(unlocked_count))
                         IN  [cat EXCEPT !.percentage = pct,
                                         !.amount = AmountOf(subtotal, pct)]
                    ELSE LET new_pct == QMul(QDiv(cat.percentage, sum_desired),
                                             available_pct)
                         IN  [cat EXCEPT !.percentage = new_pct,
                                         !.amount = AmountOf(subtotal, new_pct)]]
        ELSE cats

\* lines 93-134
recalc_categories(e, subtotal) ==
    IF e.import_mode = "amount" /\ e.keep_category_amounts
    THEN recalc_from_amounts(e.categories, subtotal)
    ELSE IF e.import_mode = "amount"
    THEN recalc_from_amounts(e.categories, subtotal)
    ELSE recalc_unlocked(recalc_locked(e.categories, subtotal), subtotal)

\* lines 136-140
recalc_fees(fees, subtotal) ==
    [i \in 1..Len(fees) |->
        [fees[i] EXCEPT !.computed_amount =
            IF fees[i].fee_type = "percentage"
            THEN AmountOf(subtotal, fees[i].value)
            ELSE fees[i].value]]

\* lines 141-145
recalc_grand_total(fees, subtotal) ==
    IF fees # <<>> THEN QAdd(subtotal, Sum(fees, ComputedAmount, Always))
    ELSE subtotal

tolerance == 1

\* the indices (from 0) of the locked categories
LockedRows(cats) ==
    LET RECURSIVE rows(_)
        rows(i) == IF i > Len(cats) THEN <<>>
                   ELSE IF IsLocked(cats[i]) THEN <<i - 1>> \o rows(i + 1)
                   ELSE rows(i + 1)
    IN  rows(1)

\* a slip: every row is marked, not only the locked ones
check_over_budget_all_rows(e) ==
    LET fixed_total == Sum(e.categories, Amount, IsLocked)
    IN  IF QLt(QAdd(e.subtotal, Num(tolerance)), fixed_total)
        THEN [e EXCEPT !.over_budget = TRUE,
                       !.over_budget_rows = Range(0, Len(e.categories))]
        ELSE [e EXCEPT !.over_budget = FALSE, !.over_budget_rows = <<>>]

check_over_budget(e) ==
    LET fixed_total == Sum(e.categories, Amount, IsLocked)
    IN  IF QLt(QAdd(e.subtotal, Num(tolerance)), fixed_total)
        THEN [e EXCEPT !.over_budget = TRUE,
                       !.over_budget_rows = LockedRows(e.categories)]
        ELSE [e EXCEPT !.over_budget = FALSE, !.over_budget_rows = <<>>]

recalc(e) ==
    LET subtotal == recalc_subtotal(e)
        fees == recalc_fees(e.fees, subtotal)
    IN  check_over_budget(
            [e EXCEPT !.subtotal = subtotal,
                      !.categories = recalc_categories(e, subtotal),
                      !.fees = fees,
                      !.computed_grand_total = recalc_grand_total(fees, subtotal)])

(***************************************************************************)
(* BudgetModel: construction and the mutators                              *)
(***************************************************************************)
\* __init__(grand_total, categories=...), lines 54-75
BudgetModel(grand_total, categories) ==
    recalc([grand_total |-> grand_total,
            admin_pct |-> Num(5),
            contingency_pct |-> Num(10),
            fees |-> <<>>,
            categories |-> categories,
            groups |-> << <<"TOTAL SCRIPT AND DEVELOPMENT", Range(0, 4)>>,
                          <<"TOTAL PRODUCTION COSTS", Range(4, 14)>>,
                          <<"TOTAL POST PRODUCTION", Range(14, 18)>>,
                          <<"TOTAL OTHER COSTS", Range(18, 21)>> >>,
            over_budget |-> FALSE,
            over_budget_rows |-> <<>>,
            import_mode |-> "amount",
            computed_grand_total |-> grand_total,
            keep_category_amounts |-> FALSE,
            subtotal |-> Num(0)])

update_category_percentage(e, index, new_percentage) ==
    LET p == QMax(new_percentage, Num(0))
        cat == e.categories[index + 1]
        cat1 == [cat EXCEPT !.percentage = p,
                            !.amount_override =
                                IF cat.lock_type # LockPercentage THEN None ELSE @]
    IN  recalc([e EXCEPT !.categories[index + 1] = cat1,
                         !.keep_category_amounts = FALSE])

\* a slip: the typed amount is turned into a percentage but not kept
update_category_amount_unkept(e, index, new_amount) ==
    LET a == QMax(new_amount, Num(0))
        cat1 == [e.categories[index + 1] EXCEPT
                    !.percentage = ShareOf(a, e.subtotal)]
    IN  recalc([e EXCEPT !.categories[index + 1] = cat1,
                         !.keep_category_amounts = FALSE])

update_category_amount(e, index, new_amount) ==
    LET a == QMax(new_amount, Num(0))
        cat1 == [e.categories[index + 1] EXCEPT
                    !.amount_override = a,
                    !.percentage = ShareOf(a, e.subtotal)]
    IN  recalc([e EXCEPT !.categories[index + 1] = cat1,
                         !.keep_category_amounts = FALSE])

\* a slip: the amount typed earlier is dropped whatever the new lock type
update_lock_type_cleared(e, index, lock_type) ==
    recalc([e EXCEPT !.categories[index + 1].lock_type = lock_type,
                     !.categories[index + 1].amount_override = None,
                     !.keep_category_amounts = FALSE])

update_lock_type(e, index, lock_type) ==
    LET cat1 == [e.categories[index + 1] EXCEPT
                    !.lock_type = lock_type,
                    !.amount_override = IF lock_type = Unlocked THEN None ELSE @]
    IN  recalc([e EXCEPT !.categories[index + 1] = cat1,
                         !.keep_category_amounts = FALSE])

lock_all(e, lock_type) ==
    recalc([e EXCEPT !.categories =
                [i \in 1..Len(e.categories) |->
                    [e.categories[i] EXCEPT !.lock_type = lock_type]]])

unlock_all(e) ==
    recalc([e EXCEPT !.categories =
                [i \in 1..Len(e.categories) |->
                    [e.categories[i] EXCEPT !.lock_type = Unlocked,
                                            !.amount_override = None]]])

set_grand_total(e, new_total) ==
    recalc([e EXCEPT !.grand_total = QMax(new_total, Num(0))])

set_admin_pct(e, new_pct) ==
    recalc([e EXCEPT !.admin_pct = QMax(new_pct, Num(0))])

set_contingency_pct(e, new_pct) ==
    recalc([e EXCEPT !.contingency_pct = QMax(new_pct, Num(0))])

(***************************************************************************)
(* The table projection.  Row positions and category indices count from 0. *)
(* raised: an IndexError left get_group_total.                             *)
(***************************************************************************)
\* self.categories[i] for i in indices: an index past the list raises
indices_in_range(e, indices) ==
    \A k \in 1..Len(indices) : indices[k] < Len(e.categories)

get_group_total(e, indices) ==
    SumSeq([k \in 1..Len(indices) |-> e.categories[indices[k] + 1].amount])

get_group_percentage(e, indices) ==
    IF e.subtotal # Num(0)
    THEN QMul(QDiv(get_group_total(e, indices), e.subtotal), Num(100))
    ELSE Num(0)

\* lines 221-245: the loop over the groups
RECURSIVE table_groups(_, _, _)
table_groups(e, groups, acc) ==
    IF groups = <<>> \/ acc.raised THEN acc
    ELSE LET label == Head(groups)[1]
             indices == Head(groups)[2]
             inside(idx) == idx < Len(e.categories)
             shown == SelectSeq(indices, inside)
             rows == [k \in 1..Len(shown) |->
                        LET cat == e.categories[shown[k] + 1]
                        IN  [row_type |-> "category",
                             description |-> cat.name,
                             amount |-> cat.amount,
                             percentage |-> cat.percentage,
                             lock_type |-> cat.lock_type,
                             cat_index |-> shown[k]]]
             member_rows == [k \in 1..Len(shown) |-> Len(acc.data) + k - 1]
             data == acc.data \o rows
         IN  IF ~indices_in_range(e, indices)
             THEN [acc EXCEPT !.raised = TRUE]
             ELSE table_groups(e, Tail(groups),
                    [data |-> Append(data,
                                [row_type |-> "group_total",
                                 description |-> label,
                                 amount |-> get_group_total(e, indices),
                                 percentage |-> get_group_percentage(e, indices),
                                 group_label |-> label]),
                     group_mapping |->
                        (label :> [member_rows |-> member_rows,
                                   total_row |-> Len(data)]) @@ acc.group_mapping,
                     raised |-> FALSE])

\* lines 252-269
fee_row(e, i) ==
    LET fee == e.fees[i + 1]
    IN  IF fee.fee_type = "percentage"
        THEN [row_type |-> "fee", description |-> fee.name,
              amount |-> fee.computed_amount, percentage |-> fee.value,
              fee_index |-> i, editable |-> TRUE]
        ELSE [row_type |-> "fee", description |-> fee.name,
              amount |-> fee.value,
              percentage |-> IF QLt(Num(0), e.subtotal)
                             THEN QMul(QDiv(fee.value, e.subtotal), Num(100))
                             ELSE Num(0),
              fee_index |-> i, editable |-> TRUE]

get_table_data(e) ==
    LET grouped == table_groups(e, e.groups,
                        [data |-> <<>>, group_mapping |-> <<>>, raised |-> FALSE])
        subtotal_row == [row_type |-> "subtotal", description |-> "SUBTOTAL",
                         amount |-> e.subtotal, percentage |-> None]
        fee_rows == [i \in 1..Len(e.fees) |-> fee_row(e, i - 1)]
        grand_total_row == [row_type |-> "grand_total", description |-> "GRAND TOTAL",
                            amount |-> e.computed_grand_total, percentage |-> None]
    IN  IF grouped.raised THEN grouped
        ELSE [grouped EXCEPT
                !.data = Append((@ \o <<subtotal_row>>) \o fee_rows, grand_total_row)]

(***************************************************************************)
(* Saving and loading                                                      *)
(***************************************************************************)
to_dict(e) ==
    [grand_total |-> e.grand_total,
     admin_pct |-> e.admin_pct,
     contingency_pct |-> e.contingency_pct,
     categories |-> [i \in 1..Len(e.categories) |-> Category_to_dict(e.categories[i])],
     groups |-> [g \in 1..Len(e.groups) |->
                    LET inside(i) == i < Len(e.categories)
                        indices == SelectSeq(e.groups[g][2], inside)
                    IN  [name |-> e.groups[g][1],
                         items |-> [k \in 1..Len(indices) |->
                                        Category_to_dict(e.categories[indices[k] + 1])]]],
     fees |-> [i \in 1..Len(e.fees) |-> FeeItem_to_dict(e.fees[i])],
     import_mode |-> e.import_mode]

\* data["groups"] is not read
from_dict(e, data) ==
    recalc([e EXCEPT
        !.grand_total = data.grand_total,
        !.admin_pct = data.admin_pct,
        !.contingency_pct = data.contingency_pct,
        !.categories = [i \in 1..Len(data.categories) |->
                            Category_from_dict(data.categories[i])],
        !.fees = [i \in 1..Len(data.fees) |-> FeeItem_from_dict(data.fees[i])],
        !.import_mode = data.import_mode])

(***************************************************************************)
(* BudgetModel.import_from_excel.  A sheet is the list of its data rows    *)
(* (the header row left out), each row with its two numeric cells already   *)
(* read as numbers: [group, desc, amount, percentage].                      *)
(***************************************************************************)
\* the group labels of the sheets g with g.upper().startswith("FEES")
FeesLabels == {"FEES", "Fees"}

\* lines 354-357: groups_dict and group_order, as the list of (group, indices)
add_to_group(groups, group, cat_index) ==
    IF \E g \in 1..Len(groups) : groups[g][1] = group
    THEN [g \in 1..Len(groups) |->
            IF groups[g][1] = group
            THEN <<group, Append(groups[g][2], cat_index)>>
            ELSE groups[g]]
    ELSE Append(groups, <<group, <<cat_index>> >>)

\* lines 338-342
fee_of_row(row) ==
    LET fee_type == IF row.amount = Num(0) THEN "percentage" ELSE "fixed"
        percentage == IF fee_type = "percentage" /\ QLt(row.percentage, Num(1))
                      THEN QMul(row.percentage, Num(100))
                      ELSE row.percentage
    IN  FeeItem(row.desc, fee_type,
                IF fee_type = "percentage" THEN percentage ELSE row.amount)

\* a slip: a row without an amount counts as an amount row
mode_of_row_nonnegative(row) ==
    IF QLe(Num(0), row.amount) THEN "amount" ELSE "percentage"

\* lines 345, 347: "amount" if amount > 0 else "percentage"
mode_of_row(row) ==
    IF QLt(Num(0), row.amount) THEN "amount" ELSE "percentage"

\* lines 323-357: the loop over the rows; st.raised when the ValueError is raised
RECURSIVE scan_rows(_, _)
scan_rows(rows, st) ==
    IF rows = <<>> \/ st.raised THEN st
    ELSE LET row == Head(rows)
         IN  IF row.group = "" THEN scan_rows(Tail(rows), st)
             ELSE IF row.group \in FeesLabels
             THEN scan_rows(Tail(rows),
                            [st EXCEPT !.fees = Append(@, fee_of_row(row))])
             ELSE LET current_mode == mode_of_row(row)
                      cat == [Category(row.desc, row.percentage) EXCEPT
                                 !.amount = row.amount]
                      cat_index == Len(st.categories_list)
                  IN  IF st.mode_detected # "None" /\ current_mode # st.mode_detected
                      THEN [st EXCEPT !.raised = TRUE]
                      ELSE scan_rows(Tail(rows),
                             [st EXCEPT
                                !.mode_detected = current_mode,
                                !.categories_list = Append(@, cat),
                                !.groups = add_to_group(@, row.group, cat_index)])

\* a slip: the fixed fees are left as they were read
convert_amount_mode_fixed_fees(e) ==
    LET cat_total == Sum(e.categories, Amount, Always)
        cats == IF QLt(Num(0), cat_total)
                THEN [i \in 1..Len(e.categories) |->
                        [e.categories[i] EXCEPT !.percentage =
                            QMul(QDiv(e.categories[i].amount, cat_total), Num(100))]]
                ELSE e.categories
        contribution(fee) == QMul(QDiv(fee.value, Num(100)), cat_total)
    IN  [e EXCEPT !.categories = cats,
                  !.grand_total = QAdd(cat_total, Sum(e.fees, contribution, IsPercentageFee)),
                  !.keep_category_amounts = TRUE,
                  !.import_mode = "percentage"]

\* lines 362-376: what an import in amount mode does to the engine
convert_amount_mode(e) ==
    LET cat_total == Sum(e.categories, Amount, Always)
        cats == IF QLt(Num(0), cat_total)
                THEN [i \in 1..Len(e.categories) |->
                        [e.categories[i] EXCEPT !.percentage =
                            QMul(QDiv(e.categories[i].amount, cat_total), Num(100))]]
                ELSE e.categories
        fees == [i \in 1..Len(e.fees) |->
                    IF e.fees[i].fee_type = "fixed"
                    THEN [e.fees[i] EXCEPT
                            !.value = QMul(QDiv(e.fees[i].value, cat_total), Num(100)),
                            !.fee_type = "percentage"]
                    ELSE e.fees[i]]
        contribution(fee) == QMul(QDiv(fee.value, Num(100)), cat_total)
    IN  [e EXCEPT !.categories = cats,
                  !.fees = fees,
                  !.grand_total = QAdd(cat_total, Sum(fees, contribution, IsPercentageFee)),
                  !.keep_category_amounts = TRUE,
                  !.import_mode = "percentage"]

\* a slip: the rows read so far are committed before the error is raised
import_from_excel_committed(e, sheet) ==
    LET st == scan_rows(sheet, [fees |-> <<>>, categories_list |-> <<>>,
                                groups |-> <<>>, mode_detected |-> "None",
                                raised |-> FALSE])
        e1 == [e EXCEPT !.fees = st.fees,
                        !.categories = st.categories_list,
                        !.groups = st.groups]
    IN  IF st.raised
        THEN [engine |-> e1, raised |-> TRUE]
        ELSE [engine |-> recalc(IF st.mode_detected = "amount"
                                THEN convert_amount_mode(e1)
                                ELSE [e1 EXCEPT !.import_mode = "percentage"]),
              raised |-> FALSE]

\* the engine after the call, and whether the call raised
import_from_excel(e, sheet) ==
    LET st == scan_rows(sheet, [fees |-> <<>>, categories_list |-> <<>>,
                                groups |-> <<>>, mode_detected |-> "None",
                                raised |-> FALSE])
        e1 == [e EXCEPT !.fees = st.fees,
                        !.categories = st.categories_list,
                        !.groups = st.groups]
    IN  IF st.raised
        THEN [engine |-> [e EXCEPT !.fees = st.fees], raised |-> TRUE]
        ELSE [engine |-> recalc(IF st.mode_detected = "amount"
                                THEN convert_amount_mode(e1)
                                ELSE [e1 EXCEPT !.import_mode = "percentage"]),
              raised |-> FALSE]

(***************************************************************************)
(* The inputs                                                              *)
(***************************************************************************)
MaxOps == 3

Row(group, desc, amount, percentage) ==
    [group |-> group, desc |-> desc, amount |-> amount, percentage |-> percentage]

\* rows of a sheet: two percentage rows, two amount rows, two fee rows
RowP == Row("A", "p", Num(0), Num(30))
RowP2 == Row("B", "p2", Num(0), Num(70))
RowA == Row("A", "a", Num(10), Num(0))
RowH == Row("B", "h", <<5, 2>>, Num(0))
RowF == Row("FEES", "f", Num(0), Num(25))
RowX == Row("Fees", "x", Num(5), Num(0))

Sheets ==
    { <<>>, <<RowP>>, <<RowP, RowP>>, <<RowP, RowP2>>, <<RowP, RowP2, RowP>>,
      <<RowA>>, <<RowH>>, <<RowA, RowH>>, <<RowA, RowA>>,
      <<RowF>>, <<RowF, RowP>>, <<RowP, RowX>>, <<RowA, RowF>>, <<RowA, RowX>>,
      <<RowA, RowH, RowX>>,
      <<RowA, RowP>>, <<RowP, RowA>>, <<RowF, RowA, RowP>>, <<RowA, RowF, RowP>>,
      <<RowX, RowP, RowA>> }

DocCategory(name, percentage, amount, amount_override, lock_type) ==
    [name |-> name, percentage |-> percentage, amount |-> amount,
     amount_override |-> amount_override, lock_type |-> lock_type]

\* category records of a saved document
DocZ == DocCategory("z", Num(0), Num(0), None, Unlocked)
DocU == DocCategory("u", Num(30), Num(300), None, Unlocked)
DocV == DocCategory("v", Num(70), Num(700), None, Unlocked)
DocW == DocCategory("w", Num(50), Num(500), Num(300), Unlocked)
DocK == DocCategory("k", Num(150), Num(1500), None, LockAmount)
DocQ == DocCategory("q", Num(20), Num(200), Num(300), LockPercentage)

DocCategoryLists ==
    { <<>>, <<DocZ, DocZ>>, <<DocU, DocV>>, <<DocK, DocU, DocV>>, <<DocQ, DocU>>,
      <<DocW, DocV>>, <<DocK, DocQ>> }

DocFees ==
    { <<>>, <<[name |-> "f", fee_type |-> "percentage", value |-> Num(25)]>> }

\* the documents to_dict writes and load_from_file reads
Docs ==
    { [grand_total |-> Num(1000), admin_pct |-> Num(5), contingency_pct |-> Num(10),
       categories |-> cs,
       groups |-> IF cs = <<>> THEN <<>> ELSE <<[name |-> "D", items |-> cs]>>,
       fees |-> fs, import_mode |-> m] :
      cs \in DocCategoryLists, fs \in DocFees, m \in {"amount", "percentage"} }

PercentageInputs == {Num(30)}
AmountInputs == {Num(300), Num(1500)}
GrandTotalInputs == {Num(2000), Num(-1)}
AdminPctInputs == {Num(-1)}
FeeValueInputs == {Num(100)}

(***************************************************************************)
(* The program: main() builds the engine, then the controller's handlers   *)
(* run one at a time, each to completion.                                  *)
(***************************************************************************)
NoOp ==
    [op |-> "main", index |-> -1, value |-> None, raised |-> FALSE,
     recalculated |-> FALSE, input |-> <<>>, before |-> <<>>, was |-> -1]

\* main.py lines 37-39
Init ==
    /\ model = [BudgetModel(Num(0), <<>>) EXCEPT !.categories = <<>>, !.groups = <<>>]
    /\ last = NoOp
    /\ nops = 0

\* one handler runs, to completion; last records which, with what input, whether
\* the call raised, whether it ended with recalc(), the call before it, and the
\* lock type the category it edits had (-1 when it edits none)
CategoryCalls == {"update_category_percentage", "update_category_amount", "update_lock_type"}
Noted(op, index, value, raised, recalculated, input) ==
    /\ last' = [op |-> op, index |-> index, value |-> value, raised |-> raised,
                recalculated |-> recalculated, input |-> input,
                before |-> <<last.op, last.value>>,
                was |-> IF op \in CategoryCalls
                        THEN model.categories[index + 1].lock_type ELSE -1]
    /\ nops' = nops + 1

CategoryIndices == 0..(Len(model.categories) - 1)
FeeIndices == 0..(Len(model.fees) - 1)

handle_cat_percentage_changed ==
    /\ nops < MaxOps
    /\ \E i \in CategoryIndices, p \in PercentageInputs :
        /\ model' = update_category_percentage(model, i, p)
        /\ Noted("update_category_percentage", i, p, FALSE, TRUE, <<>>)

handle_cat_amount_changed ==
    /\ nops < MaxOps
    /\ \E i \in CategoryIndices, a \in AmountInputs :
        /\ model' = update_category_amount(model, i, a)
        /\ Noted("update_category_amount", i, a, FALSE, TRUE, <<>>)

handle_lock_type_changed ==
    /\ nops < MaxOps
    /\ \E i \in CategoryIndices, t \in {Unlocked, LockAmount, LockPercentage} :
        /\ model' = update_lock_type(model, i, t)
        /\ Noted("update_lock_type", i, Num(t), FALSE, TRUE, <<>>)

handle_lock_all_amounts ==
    /\ nops < MaxOps
    /\ model' = lock_all(model, LockAmount)
    /\ Noted("lock_all", -1, Num(LockAmount), FALSE, TRUE, <<>>)

handle_lock_all_percentages ==
    /\ nops < MaxOps
    /\ model' = lock_all(model, LockPercentage)
    /\ Noted("lock_all", -1, Num(LockPercentage), FALSE, TRUE, <<>>)

handle_unlock_all ==
    /\ nops < MaxOps
    /\ model' = unlock_all(model)
    /\ Noted("unlock_all", -1, None, FALSE, TRUE, <<>>)

handle_grand_total_changed ==
    /\ nops < MaxOps
    /\ \E v \in GrandTotalInputs :
        /\ model' = set_grand_total(model, v)
        /\ Noted("set_grand_total", -1, v, FALSE, TRUE, <<>>)

handle_adminPctChanged ==
    /\ nops < MaxOps
    /\ \E v \in AdminPctInputs :
        /\ model' = set_admin_pct(model, v)
        /\ Noted("set_admin_pct", -1, v, FALSE, TRUE, <<>>)

handle_contingencyPctChanged ==
    /\ nops < MaxOps
    /\ \E v \in AdminPctInputs :
        /\ model' = set_contingency_pct(model, v)
        /\ Noted("set_contingency_pct", -1, v, FALSE, TRUE, <<>>)

\* controller.py lines 105-110: only a fixed fee takes the new amount
handle_fee_amount_changed ==
    /\ nops < MaxOps
    /\ \E i \in FeeIndices, v \in FeeValueInputs :
        /\ model' = IF model.fees[i + 1].fee_type = "fixed"
                    THEN recalc([model EXCEPT !.fees[i + 1].value = v])
                    ELSE model
        /\ Noted("fee_amount_changed", i, v, FALSE,
                 model.fees[i + 1].fee_type = "fixed", <<>>)

\* controller.py lines 112-117: only a percentage fee takes the new percentage
handle_fee_percentage_changed ==
    /\ nops < MaxOps
    /\ \E i \in FeeIndices, v \in FeeValueInputs :
        /\ model' = IF model.fees[i + 1].fee_type = "percentage"
                    THEN recalc([model EXCEPT !.fees[i + 1].value = v])
                    ELSE model
        /\ Noted("fee_percentage_changed", i, v, FALSE,
                 model.fees[i + 1].fee_type = "percentage", <<>>)

\* controller.py lines 82-90
handle_load_budget ==
    /\ nops < MaxOps
    /\ \E d \in Docs :
        /\ model' = from_dict(model, d)
        /\ Noted("from_dict", -1, None, FALSE, TRUE, d)

\* controller.py lines 92-100: a raised error is reported, the engine stays as it is
handle_import_excel ==
    /\ nops < MaxOps
    /\ \E sheet \in Sheets :
        LET r == import_from_excel(model, sheet)
        IN  /\ model' = r.engine
            /\ Noted("import_from_excel", -1, None, r.raised, ~r.raised, sheet)

Next ==
    \/ handle_cat_percentage_changed
    \/ handle_cat_amount_changed
    \/ handle_lock_type_changed
    \/ handle_lock_all_amounts
    \/ handle_lock_all_percentages
    \/ handle_unlock_all
    \/ handle_grand_total_changed
    \/ handle_adminPctChanged
    \/ handle_contingencyPctChanged
    \/ handle_fee_amount_changed
    \/ handle_fee_percentage_changed
    \/ handle_load_budget
    \/ handle_import_excel

Spec == Init /\ [][Next]_vars

(***************************************************************************)
(* The properties                                                          *)
(***************************************************************************)
Cats == model.categories
PercentageMode == model.import_mode = "percentage"
Hundredth == <<1, 100>>
QAbs(a) == <<Abs(a[1]), a[2]>>
Near(a, b, tol) == QLe(QAbs(QSub(a, b)), tol)
TotalOf(xs) == SumSeq(xs)
AllPercentages(cats) == [i \in 1..Len(cats) |-> cats[i].percentage]
LockedPercentages(cats) ==
    [i \in 1..Len(cats) |-> IF IsLocked(cats[i]) THEN cats[i].percentage ELSE Num(0)]
LockedAmounts(cats) ==
    [i \in 1..Len(cats) |-> IF IsLocked(cats[i]) THEN cats[i].amount ELSE Num(0)]
Mutators ==
    {"update_category_percentage", "update_category_amount", "update_lock_type",
     "lock_all", "unlock_all", "set_grand_total", "set_admin_pct",
     "set_contingency_pct"}

\* C1: in Percentage mode, with at least one Unlocked category and the locked
\* categories' percentages summing to at most 100, the percentages of all the
\* categories sum to 100 (within 0.01) once recalc has run.
C1_PercentageConservation ==
    ( /\ PercentageMode
      /\ \E i \in 1..Len(Cats) : IsUnlocked(Cats[i])
      /\ QLe(TotalOf(LockedPercentages(Cats)), Num(100)) )
    => Near(TotalOf(AllPercentages(Cats)), Num(100), Hundredth)

\* a mutator has run on an engine with two unlocked categories of different
\* shares beside a locked one that takes part of the 100
C1_Witness ==
    /\ last.op \in Mutators
    /\ PercentageMode
    /\ \E i, j, k \in 1..Len(Cats) :
        /\ IsUnlocked(Cats[i]) /\ IsUnlocked(Cats[j]) /\ IsLocked(Cats[k])
        /\ Cats[i].percentage # Cats[j].percentage
        /\ QLt(Num(0), Cats[k].percentage)
    /\ QLt(TotalOf(LockedPercentages(Cats)), Num(100))

\* C2: in every state a recalc has left, a second recalc, with no mutation in
\* between, changes nothing: not a category's percentage or amount, not a fee's
\* computed_amount, not subtotal, computed_grand_total, over_budget or
\* over_budget_rows.
C2_RecalcIdempotent ==
    last.recalculated => recalc(model) = model

\* a / subtotal * 100, 0 if subtotal is 0
ExpectedShare(a, subtotal) ==
    IF subtotal = Num(0) THEN Num(0) ELSE QMul(QDiv(a, subtotal), Num(100))

AmountEdited == last.op = "update_category_amount" /\ QLe(Num(0), last.value)
EditedCat == Cats[last.index + 1]

\* C3 as stated: right after update_category_amount(i, a), a >= 0, category i's
\* percentage is a / subtotal * 100 (0 if subtotal is 0), whatever its lock type
\* and the import mode.
C3_AmountToPercentage_Any ==
    AmountEdited => EditedCat.percentage = ExpectedShare(last.value, model.subtotal)

\* C3 amended: right after update_category_amount(i, a), a >= 0, on a category
\* whose lock type is LockAmount, in Percentage mode, category i's percentage is
\* a / subtotal * 100 (0 if subtotal is 0).
C3_AmountToPercentage_LockAmount ==
    (AmountEdited /\ PercentageMode /\ EditedCat.lock_type = LockAmount)
    => EditedCat.percentage = ExpectedShare(last.value, model.subtotal)

\* an amount was typed into a LockAmount category of an engine in Percentage
\* mode whose subtotal is not 0, beside an unlocked category
C3_Witness ==
    /\ AmountEdited /\ PercentageMode /\ EditedCat.lock_type = LockAmount
    /\ model.subtotal # Num(0)
    /\ QLt(Num(0), EditedCat.percentage)
    /\ \E j \in 1..Len(Cats) : IsUnlocked(Cats[j])

\* the indices (from 0) of the locked categories, in increasing order
IsLockedRows(rows, cats) ==
    /\ \A k \in 1..Len(rows) : rows[k] + 1 \in 1..Len(cats) /\ IsLocked(cats[rows[k] + 1])
    /\ \A i \in 1..Len(cats) : IsLocked(cats[i]) => \E k \in 1..Len(rows) : rows[k] = i - 1
    /\ \A k \in 1..(Len(rows) - 1) : rows[k] < rows[k + 1]

\* C4: over_budget is true exactly when the amounts of the locked categories
\* sum to more than subtotal + 1; over_budget_rows lists the indices of all the
\* locked categories when it is true and is empty when it is false.
C4_OverBudgetFlag ==
    /\ model.over_budget
        <=> QLt(QAdd(model.subtotal, Num(1)), TotalOf(LockedAmounts(Cats)))
    /\ model.over_budget => IsLockedRows(model.over_budget_rows, Cats)
    /\ ~model.over_budget => model.over_budget_rows = <<>>

\* a mutator has left the engine over budget, with a locked and an unlocked row
C4_Witness ==
    /\ last.op \in Mutators
    /\ model.over_budget
    /\ \E i, j \in 1..Len(Cats) : IsLocked(Cats[i]) /\ IsUnlocked(Cats[j])

SeededUniformly(e) ==
    /\ e.grand_total = Num(1000)
    /\ Len(e.categories) = 2
    /\ e.fees = <<>>
    /\ e.categories[1].percentage = e.categories[2].percentage

SplitEqually(e) ==
    \A i \in 1..Len(e.categories) :
        e.categories[i].amount = Num(500) /\ e.categories[i].percentage = Num(50)

\* C5 as stated: with grand_total = 1000, two categories of equal percentages
\* and no fees, lock_all(LockAmount) then unlock_all() leaves each category with
\* amount 500 and percentage 50.
C5_LockRoundTrip_Any ==
    SeededUniformly(model) => SplitEqually(unlock_all(lock_all(model, LockAmount)))

\* C5 amended: in Percentage mode, with grand_total = 1000, two Unlocked
\* categories of equal percentages that carry no amount_override, and no fees,
\* lock_all(LockAmount) then unlock_all() leaves each category with amount 500
\* and percentage 50.
C5_LockRoundTrip_Percentage ==
    ( /\ SeededUniformly(model)
      /\ PercentageMode
      /\ \A i \in 1..Len(Cats) :
            IsUnlocked(Cats[i]) /\ Cats[i].amount_override = None )
    => SplitEqually(unlock_all(lock_all(model, LockAmount)))

\* unlock_all() has run right after lock_all(LockAmount) on such an engine
C5_Witness ==
    /\ last.op = "unlock_all"
    /\ last.before = <<"lock_all", Num(LockAmount)>>
    /\ PercentageMode
    /\ SeededUniformly(model)
    /\ SplitEqually(model)

IsFeeRow(row) == row.group \in FeesLabels
IsCategoryRow(row) == row.group # "" /\ row.group \notin FeesLabels
HasAmount(row) == QLt(Num(0), row.amount)
CategoryRowsOf(sheet) == {i \in 1..Len(sheet) : IsCategoryRow(sheet[i])}
FirstCategoryRow(sheet) ==
    CHOOSE i \in CategoryRowsOf(sheet) : \A j \in CategoryRowsOf(sheet) : i <= j
\* the category rows whose amount > 0 differs from the first category row's
OffendingRows(sheet) ==
    IF CategoryRowsOf(sheet) = {} THEN {}
    ELSE {j \in CategoryRowsOf(sheet) :
            HasAmount(sheet[j]) # HasAmount(sheet[FirstCategoryRow(sheet)])}
FirstOffendingRow(sheet) ==
    CHOOSE j \in OffendingRows(sheet) : \A k \in OffendingRows(sheet) : j <= k
\* the fee a fee row stands for
ExpectedFee(row) ==
    [name |-> row.desc,
     fee_type |-> IF row.amount = Num(0) THEN "percentage" ELSE "fixed",
     value |-> IF row.amount # Num(0) THEN row.amount
               ELSE IF QLt(row.percentage, Num(1)) THEN QMul(row.percentage, Num(100))
               ELSE row.percentage,
     computed_amount |-> Num(0)]
FeesBefore(sheet, j) ==
    LET rows == SelectSeq(SubSeq(sheet, 1, j - 1), IsFeeRow)
    IN  [k \in 1..Len(rows) |-> ExpectedFee(rows[k])]
ImportRaised == last'.op = "import_from_excel" /\ last'.raised

\* C6 as stated: when import_from_excel raises the mixed-mode error, the
\* categories and the groups are those from before the import and the fee list
\* is empty, also when fee rows precede the offending row.
C6_FailedImport_NoFees ==
    [][ImportRaised =>
        /\ model'.categories = model.categories
        /\ model'.groups = model.groups
        /\ model'.fees = <<>>]_vars

\* C6 amended: when import_from_excel raises the mixed-mode error, the
\* categories and the groups are those from before the import and the fee list
\* holds exactly the fees of the fee rows that precede the offending row (it is
\* empty only when there is none).
C6_FailedImport_FeesRead ==
    [][ImportRaised =>
        /\ model'.categories = model.categories
        /\ model'.groups = model.groups
        /\ OffendingRows(last'.input) # {}
        /\ model'.fees = FeesBefore(last'.input, FirstOffendingRow(last'.input))]_vars

\* an import has raised on an engine that had categories and groups, after
\* reading a fee row
C6_Witness ==
    /\ last.op = "import_from_excel" /\ last.raised
    /\ model.categories # <<>> /\ model.groups # <<>>
    /\ model.fees # <<>>

Loaded == last.op = "from_dict"
NamesOf(items) == [k \in 1..Len(items) |-> items[k].name]
\* the categories of the engine are those of the document
CategoriesDescribedBy(d) ==
    /\ Len(Cats) = Len(d.categories)
    /\ \A i \in 1..Len(Cats) :
        /\ Cats[i].name = d.categories[i].name
        /\ Cats[i].lock_type = d.categories[i].lock_type
        /\ Cats[i].amount_override = d.categories[i].amount_override
FeesDescribedBy(d) ==
    /\ Len(model.fees) = Len(d.fees)
    /\ \A i \in 1..Len(model.fees) :
        /\ model.fees[i].name = d.fees[i].name
        /\ model.fees[i].fee_type = d.fees[i].fee_type
        /\ model.fees[i].value = d.fees[i].value
\* the groups of the engine have the names and the members of the document's
GroupsDescribedBy(d) ==
    /\ Len(model.groups) = Len(d.groups)
    /\ \A g \in 1..Len(model.groups) :
        /\ model.groups[g][1] = d.groups[g].name
        /\ Len(model.groups[g][2]) = Len(d.groups[g].items)
        /\ \A k \in 1..Len(model.groups[g][2]) :
            /\ model.groups[g][2][k] + 1 \in 1..Len(Cats)
            /\ Cats[model.groups[g][2][k] + 1].name = d.groups[g].items[k].name

\* C7: after from_dict(d) the categories, the fees and the groups of the engine
\* are those the document d describes, none carried over from before the load,
\* and a full recalc has run.
C7_LoadReplacesAll ==
    Loaded =>
        /\ CategoriesDescribedBy(last.input)
        /\ FeesDescribedBy(last.input)
        /\ GroupsDescribedBy(last.input)
        /\ last.recalculated
        /\ model.subtotal = recalc_subtotal(model)

CategoryRows(sheet) == SelectSeq(sheet, IsCategoryRow)
\* an import has succeeded on a sheet whose first category row has an amount
ImportedAmounts ==
    /\ last.op = "import_from_excel" /\ ~last.raised
    /\ CategoryRows(last.input) # <<>>
    /\ HasAmount(CategoryRows(last.input)[1])

\* C8: after a successful import that detected Amount mode,
\* keep_category_amounts is true and the recalc that ends the import leaves
\* every category's amount equal to the amount read from the sheet, non-integer
\* amounts included.
C8_ImportedAmountsKept ==
    ImportedAmounts =>
        /\ model.keep_category_amounts
        /\ PercentageMode
        /\ Len(Cats) = Len(CategoryRows(last.input))
        /\ \A i \in 1..Len(Cats) : Cats[i].amount = CategoryRows(last.input)[i].amount

PercentageEdited == last.op = "update_category_percentage" /\ QLe(Num(0), last.value)
DerivedAmount(subtotal, percentage) ==
    Round(QDiv(QMul(subtotal, percentage), Num(100)))
LockPercentageHolds ==
    /\ \A i \in 1..Len(Cats) :
        Cats[i].lock_type = LockPercentage
        => Cats[i].amount = DerivedAmount(model.subtotal, Cats[i].percentage)
    /\ (PercentageEdited /\ EditedCat.lock_type = LockPercentage)
        => /\ EditedCat.percentage = last.value
           /\ EditedCat.amount = DerivedAmount(model.subtotal, last.value)

\* C9 as stated: in every import mode, every LockPercentage category has
\* amount = round(subtotal * percentage / 100), and right after
\* update_category_percentage(i, p), p >= 0, on a LockPercentage category its
\* percentage is p and its amount round(subtotal * p / 100).
C9_LockPercentage_AnyMode == LockPercentageHolds

\* C9 amended: in Percentage mode, every LockPercentage category has
\* amount = round(subtotal * percentage / 100), and right after
\* update_category_percentage(i, p), p >= 0, on a LockPercentage category its
\* percentage is p and its amount round(subtotal * p / 100).
C9_LockPercentage_PercentageMode == PercentageMode => LockPercentageHolds

\* a percentage was typed into a LockPercentage category of an engine in
\* Percentage mode, and its amount followed
C9_Witness ==
    /\ PercentageEdited /\ PercentageMode
    /\ EditedCat.lock_type = LockPercentage
    /\ EditedCat.percentage = last.value
    /\ model.subtotal # Num(0)
    /\ EditedCat.amount # Num(0)

\* over one mutator: a LockAmount category has its amount_override for amount
\* when it has one, the amount it had before otherwise, and its percentage is
\* its share of the subtotal
LockAmountHolds ==
    \A i \in 1..Len(model'.categories) :
        LET cat == model'.categories[i]
        IN  cat.lock_type = LockAmount
            => /\ cat.amount = IF cat.amount_override # None
                               THEN cat.amount_override
                               ELSE model.categories[i].amount
               /\ cat.percentage = ExpectedShare(cat.amount, model'.subtotal)

\* C10 as stated: in every import mode, after every mutator, every LockAmount
\* category has amount = amount_override when that is set, its amount from
\* before the mutator otherwise, and percentage = amount / subtotal * 100 (0 if
\* subtotal is 0).
C10_LockAmount_AnyMode ==
    [][last'.op \in Mutators => LockAmountHolds]_vars

\* C10 amended: in Percentage mode, after every mutator, every LockAmount
\* category has amount = amount_override when that is set, its amount from
\* before the mutator otherwise, and percentage = amount / subtotal * 100 (0 if
\* subtotal is 0).
C10_LockAmount_PercentageMode ==
    [][(last'.op \in Mutators /\ model'.import_mode = "percentage")
        => LockAmountHolds]_vars

\* a mutator has run in Percentage mode and left a LockAmount category at the
\* amount typed for it, beside a LockAmount category with none typed
C10_Witness ==
    /\ last.op \in Mutators /\ PercentageMode
    /\ model.subtotal # Num(0)
    /\ \E i \in 1..Len(Cats) :
        /\ Cats[i].lock_type = LockAmount
        /\ Cats[i].amount_override # None
        /\ Cats[i].amount = Cats[i].amount_override
        /\ Cats[i].amount # Num(0)
    /\ \E j \in 1..Len(Cats) :
        Cats[j].lock_type = LockAmount /\ Cats[j].amount_override = None

FeeFields(fees) ==
    [i \in 1..Len(fees) |->
        [name |-> fees[i].name, fee_type |-> fees[i].fee_type, value |-> fees[i].value]]
\* what the round trip is said to keep
SerializedFields(e) ==
    [grand_total |-> e.grand_total,
     import_mode |-> e.import_mode,
     fees |-> FeeFields(e.fees),
     categories |-> e.categories,
     subtotal |-> e.subtotal,
     computed_grand_total |-> e.computed_grand_total,
     over_budget |-> e.over_budget]

\* C11: in every reachable state, from_dict(to_dict()) yields an engine whose
\* grand_total, import_mode, fees (name, fee_type, value), categories (name,
\* percentage, amount, amount_override, lock_type), subtotal,
\* computed_grand_total and over_budget equal those of the engine serialized.
C11_RoundTrip ==
    SerializedFields(from_dict(model, to_dict(model))) = SerializedFields(model)

InertParameterSet == last'.op \in {"set_admin_pct", "set_contingency_pct"}

\* C12: set_admin_pct(v) and set_contingency_pct(v) store max(v, 0) in
\* admin_pct / contingency_pct and change nothing else of the engine: every
\* category, every fee, grand_total, subtotal, computed_grand_total,
\* over_budget, over_budget_rows and keep_category_amounts stay as they were.
C12_InertParameters ==
    [][InertParameterSet =>
        model' = IF last'.op = "set_admin_pct"
                 THEN [model EXCEPT !.admin_pct = QMax(last'.value, Num(0))]
                 ELSE [model EXCEPT !.contingency_pct = QMax(last'.value, Num(0))]]_vars

Table == get_table_data(model)
RowTypes(data) == [k \in 1..Len(data) |-> data[k].row_type]
Repeat(n, x) == [k \in 1..n |-> x]
\* the rows of one group: its members, then its total
GroupRowTypes(group) == Append(Repeat(Len(group[2]), "category"), "group_total")
RECURSIVE ExpectedRowTypes(_)
ExpectedRowTypes(groups) ==
    IF groups = <<>> THEN <<>>
    ELSE GroupRowTypes(Head(groups)) \o ExpectedRowTypes(Tail(groups))
CategoryRowsFor(data, i) ==
    {k \in 1..Len(data) : data[k].row_type = "category" /\ data[k].cat_index = i}
\* the position (from 0) of the total row of group g, every index being shown
TotalRowOf(groups, g) == Len(ExpectedRowTypes(SubSeq(groups, 1, g))) - 1

\* C13: get_table_data returns, for each group, its member category rows then
\* its group_total row, then one subtotal row, one fee row per fee in fee
\* order and one grand_total row; every category of the engine is in exactly
\* one category row; group_mapping gives each group label the positions of its
\* member rows and of its total row.
C13_ProjectionStructure ==
    /\ ~Table.raised
    /\ RowTypes(Table.data)
        = Append((ExpectedRowTypes(model.groups) \o <<"subtotal">>)
                    \o Repeat(Len(model.fees), "fee"), "grand_total")
    /\ \A i \in 1..Len(model.fees) :
        Table.data[Len(ExpectedRowTypes(model.groups)) + 1 + i].fee_index = i - 1
    /\ \A i \in 0..(Len(Cats) - 1) : Cardinality(CategoryRowsFor(Table.data, i)) = 1
    /\ \A g \in 1..Len(model.groups) :
        LET total_row == TotalRowOf(model.groups, g)
            members == model.groups[g][2]
            mapped == Table.group_mapping[model.groups[g][1]]
        IN  /\ mapped.total_row = total_row
            /\ mapped.member_rows
                = [k \in 1..Len(members) |-> total_row - Len(members) + k - 1]
            /\ \A k \in 1..Len(members) :
                Table.data[mapped.member_rows[k] + 1].cat_index = members[k]

\* the local mode_detected when the scan of the sheet ends
ModeDetected(sheet) ==
    scan_rows(sheet, [fees |-> <<>>, categories_list |-> <<>>, groups |-> <<>>,
                      mode_detected |-> "None", raised |-> FALSE]).mode_detected
Imported == last.op = "import_from_excel"
FirstRowHasAmount(sheet) ==
    CategoryRows(sheet) # <<>> /\ HasAmount(CategoryRows(sheet)[1])

\* C14: import_from_excel raises the mixed-mode error exactly when a non-fee
\* row after the first has (amount > 0) different from the first non-fee
\* row's; fee rows take no part; when the import succeeds, the mode detected is
\* Amount (the amounts are converted and keep_category_amounts is set) if the
\* first non-fee row has amount > 0, and Percentage otherwise.
C14_ModeDetection ==
    Imported =>
        /\ last.raised <=> OffendingRows(last.input) # {}
        /\ (~last.raised /\ FirstRowHasAmount(last.input))
            => /\ ModeDetected(last.input) = "amount"
               /\ model.keep_category_amounts
               /\ \A i \in 1..Len(model.fees) : model.fees[i].fee_type = "percentage"
        /\ (~last.raised /\ ~FirstRowHasAmount(last.input))
            => /\ ModeDetected(last.input) \in {"percentage", "None"}
               /\ model.import_mode = "percentage"
               /\ model.fees = [i \in 1..Len(model.fees) |->
                                    [model.fees[i] EXCEPT !.fee_type =
                                        ExpectedFee(SelectSeq(last.input, IsFeeRow)[i]).fee_type]]

\* an import was refused for a row with an amount after a first category row
\* without one, though a fee row with an amount came first
C14_Witness ==
    /\ Imported /\ last.raised
    /\ IsFeeRow(last.input[1]) /\ HasAmount(last.input[1])
    /\ ~FirstRowHasAmount(last.input)
    /\ OffendingRows(last.input) # {}

FeeValues(fees, fee_type) ==
    [i \in 1..Len(fees) |-> IF fees[i].fee_type = fee_type THEN fees[i].value ELSE Num(0)]
ExpectedSubtotal(e) ==
    IF e.fees = <<>> THEN e.grand_total
    ELSE IF e.import_mode = "amount"
    THEN TotalOf([i \in 1..Len(e.categories) |-> e.categories[i].amount])
    ELSE LET denominator ==
                QAdd(Num(1), QDiv(TotalOf(FeeValues(e.fees, "percentage")), Num(100)))
         IN  IF denominator = Num(0) THEN Num(0)
             ELSE Round(QDiv(QSub(e.grand_total, TotalOf(FeeValues(e.fees, "fixed"))),
                             denominator))
\* grand_total = 1100 with one 10% fee, in Percentage mode
ExampleEngine ==
    recalc([BudgetModel(Num(1100), <<>>) EXCEPT
                !.fees = <<FeeItem("f", "percentage", Num(10))>>,
                !.import_mode = "percentage"])

\* C15: after every recalc, subtotal is grand_total when there are no fees, the
\* sum of the category amounts when there are fees in Amount mode, and
\* round((grand_total - fixed fees) / (1 + percentage fees / 100)), or 0 when
\* that denominator is 0, when there are fees in Percentage mode; grand_total
\* 1100 with one 10% fee gives subtotal 1000, fee amount 100, computed grand
\* total 1100.
C15_SubtotalDerivation ==
    /\ last.recalculated => model.subtotal = ExpectedSubtotal(model)
    /\ ExampleEngine.subtotal = Num(1000)
    /\ ExampleEngine.fees[1].computed_amount = Num(100)
    /\ ExampleEngine.computed_grand_total = Num(1100)

\* a recalc has run in Percentage mode with a percentage fee that takes the
\* subtotal away from the grand total
C15_Witness ==
    /\ last.recalculated /\ PercentageMode
    /\ model.fees # <<>>
    /\ model.subtotal # model.grand_total
    /\ model.subtotal # Num(0)
    /\ \E i \in 1..Len(model.fees) :
        model.fees[i].fee_type = "percentage" /\ model.fees[i].computed_amount # Num(0)

FeeRows(sheet) == SelectSeq(sheet, IsFeeRow)
\* the sum of the category amounts read from the sheet
CatTotal(sheet) ==
    TotalOf([i \in 1..Len(CategoryRows(sheet)) |-> CategoryRows(sheet)[i].amount])
ShareOfTotal(amount, sheet) == QMul(QDiv(amount, CatTotal(sheet)), Num(100))
FeeContributions(fees, sheet) ==
    [i \in 1..Len(fees) |-> QMul(QDiv(fees[i].value, Num(100)), CatTotal(sheet))]

\* C16: after a successful import that detected Amount mode, every fee is a
\* percentage fee (one read as fixed with amount f has value f / cat_total *
\* 100, cat_total being the sum of the category amounts read), every
\* category's percentage is the amount read for it / cat_total * 100, and
\* grand_total = cat_total + the sum over the fees of value / 100 * cat_total.
C16_AmountModeNormalization ==
    ImportedAmounts =>
        /\ Len(model.fees) = Len(FeeRows(last.input))
        /\ \A i \in 1..Len(model.fees) :
            /\ model.fees[i].fee_type = "percentage"
            /\ model.fees[i].value
                = IF FeeRows(last.input)[i].amount # Num(0)
                  THEN ShareOfTotal(FeeRows(last.input)[i].amount, last.input)
                  ELSE ExpectedFee(FeeRows(last.input)[i]).value
        /\ Len(Cats) = Len(CategoryRows(last.input))
        /\ \A i \in 1..Len(Cats) :
            Cats[i].percentage = ShareOfTotal(CategoryRows(last.input)[i].amount, last.input)
        /\ model.grand_total
            = QAdd(CatTotal(last.input), TotalOf(FeeContributions(model.fees, last.input)))

\* an import of two category rows with amounts and a fee row with an amount
\* has succeeded
C16_Witness ==
    /\ ImportedAmounts
    /\ Len(Cats) >= 2
    /\ \E i \in 1..Len(FeeRows(last.input)) : HasAmount(FeeRows(last.input)[i])
    /\ model.fees # <<>>
    /\ model.grand_total # CatTotal(last.input)

\* C17: starting from the engine as main sets it up, after imports, loads and
\* mutators every category index stored in a group is smaller than the number
\* of categories, and get_table_data does not raise an index error.
C17_GroupIndicesValid ==
    /\ \A g \in 1..Len(model.groups) : indices_in_range(model, model.groups[g][2])
    /\ ~get_table_data(model).raised

\* update_lock_type(i, LockAmount) runs in Percentage mode on an Unlocked
\* category
LockedFromUnlocked ==
    /\ last'.op = "update_lock_type" /\ last'.value = Num(LockAmount)
    /\ model.import_mode = "percentage"
    /\ model.categories[last'.index + 1].lock_type = Unlocked

ClampingMutators ==
    {"update_category_percentage", "update_category_amount", "update_lock_type",
     "lock_all", "unlock_all", "set_grand_total"}
NonNegativeCategories(e) ==
    \A i \in 1..Len(e.categories) :
        QLe(Num(0), e.categories[i].percentage) /\ QLe(Num(0), e.categories[i].amount)

\* C19: in Percentage mode with no fees, from a state where grand_total and
\* every category's percentage and amount are >= 0, a mutator leaves every
\* category's percentage and amount >= 0.
C19_NonNegativity ==
    [][( /\ last'.op \in ClampingMutators
         /\ model.import_mode = "percentage" /\ model.fees = <<>>
         /\ QLe(Num(0), model.grand_total)
         /\ NonNegativeCategories(model) )
        => NonNegativeCategories(model')]_vars

====
